---- MODULE Spec2Model ----
(***************************************************************************)
(* Model of the contact manager in src/task_to_module_eight.py: the field  *)
(* validators, Record, AddressBook (with the upcoming-birthday query), the *)
(* command handlers behind the input_error decorator, load_data/save_data  *)
(* and the interactive loop of main.                                       *)
(*                                                                         *)
(* Python strings are TLA+ strings; where the code looks inside a string   *)
(* (str.isdigit, len, strptime) the model looks at its characters through  *)
(* Chars, a table from each string of the input alphabet to the sequence   *)
(* of its characters.  A character is a one-letter string, except "sup2",  *)
(* which stands for the single code point U+00B2 (SUPERSCRIPT TWO), and    *)
(* "cyr_m", which stands for U+043C (CYRILLIC SMALL LETTER EM).            *)
(***************************************************************************)
EXTENDS Integers, Sequences, FiniteSets, TLC

VARIABLES
    pc,       \* position of main: "start", "loop", "finally", "exited", "crashed"
    book,     \* the AddressBook: records in insertion order of the dict
    file,     \* content of addressbook.pkl
    disk,     \* whether addressbook.pkl can be opened for writing
    libc,     \* what the build's strftime does with an unknown directive
    today,    \* date.today()
    days,     \* midnights passed since the program started
    last,     \* the last line read, as parse_input split it
    out,      \* what the last command printed
    endedBy,  \* how the loop ended: "none", "close", "interrupt", "eof" (input()
              \* raised EOFError), "error" (a handler let an exception through)
    exitSaves \* calls of save_data made by the finally clause of main

vars == <<pc, book, file, disk, libc, today, days, last, out, endedBy, exitSaves>>

----------------------------------------------------------------------------
(* Bounds *)

MaxPhones == 2
MaxDays == 1

----------------------------------------------------------------------------
(* Characters and strings *)

AsciiDigits == {"0", "1", "2", "3", "4", "5", "6", "7", "8", "9"}

\* Characters outside 0-9 for which str.isdigit() is true (Unicode category
\* No/Nd with a digit value); U+00B2 is one of them.
UnicodeDigits == {"sup2"}

DigitValue(c) ==
    CASE c = "0" -> 0 [] c = "1" -> 1 [] c = "2" -> 2 [] c = "3" -> 3
      [] c = "4" -> 4 [] c = "5" -> 5 [] c = "6" -> 6 [] c = "7" -> 7
      [] c = "8" -> 8 [] c = "9" -> 9

DigitChar(n) ==
    CASE n = 0 -> "0" [] n = 1 -> "1" [] n = 2 -> "2" [] n = 3 -> "3"
      [] n = 4 -> "4" [] n = 5 -> "5" [] n = 6 -> "6" [] n = 7 -> "7"
      [] n = 8 -> "8" [] n = 9 -> "9"

\* The characters of every string the inputs are drawn from.
Chars(s) ==
    CASE s = "0123456789" -> <<"0", "1", "2", "3", "4", "5", "6", "7", "8", "9">>
      [] s = "5550001111" -> <<"5", "5", "5", "0", "0", "0", "1", "1", "1", "1">>
      [] s = "012345678" -> <<"0", "1", "2", "3", "4", "5", "6", "7", "8">>
      [] s = "01234567890" -> <<"0", "1", "2", "3", "4", "5", "6", "7", "8", "9", "0">>
      [] s = "01234abcde" -> <<"0", "1", "2", "3", "4", "a", "b", "c", "d", "e">>
      [] s = "012345678^2" -> <<"0", "1", "2", "3", "4", "5", "6", "7", "8", "sup2">>
      [] s = "15.06.1990" -> <<"1", "5", ".", "0", "6", ".", "1", "9", "9", "0">>
      [] s = "5.6.1990" -> <<"5", ".", "6", ".", "1", "9", "9", "0">>
      [] s = "31.02.2000" -> <<"3", "1", ".", "0", "2", ".", "2", "0", "0", "0">>
      [] s = "15-06-1990" -> <<"1", "5", "-", "0", "6", "-", "1", "9", "9", "0">>
      [] s = "01.01.2999" -> <<"0", "1", ".", "0", "1", ".", "2", "9", "9", "9">>
      [] s = "15.06.90" -> <<"1", "5", ".", "0", "6", ".", "9", "0">>
      [] s = "16.06.2000" -> <<"1", "6", ".", "0", "6", ".", "2", "0", "0", "0">>
      [] s = "17.06.1985" -> <<"1", "7", ".", "0", "6", ".", "1", "9", "8", "5">>
      [] s = "18.06.1985" -> <<"1", "8", ".", "0", "6", ".", "1", "9", "8", "5">>
      [] s = "09.06.1990" -> <<"0", "9", ".", "0", "6", ".", "1", "9", "9", "0">>
      [] s = "10.06.1990" -> <<"1", "0", ".", "0", "6", ".", "1", "9", "9", "0">>
      [] s = "02.01.1990" -> <<"0", "2", ".", "0", "1", ".", "1", "9", "9", "0">>
      [] s = "30.12.1990" -> <<"3", "0", ".", "1", "2", ".", "1", "9", "9", "0">>
      [] s = "29.02.2000" -> <<"2", "9", ".", "0", "2", ".", "2", "0", "0", "0">>

\* str.isdigit(): non-empty and every character is a digit character, ASCII
\* or not.
IsDigit(cs) ==
    /\ Len(cs) > 0
    /\ \A i \in 1..Len(cs) : cs[i] \in AsciiDigits \cup UnicodeDigits

----------------------------------------------------------------------------
(* datetime.date: proleptic Gregorian calendar, as the standard library    *)
(* computes it.  A date is [year, month, day].                             *)

NoDate == [year |-> 0, month |-> 0, day |-> 0]

IsLeap(y) == (y % 4 = 0) /\ ((y % 100 # 0) \/ (y % 400 = 0))

DaysInMonth(y, m) ==
    IF m = 2 THEN (IF IsLeap(y) THEN 29 ELSE 28)
    ELSE IF m \in {4, 6, 9, 11} THEN 30 ELSE 31

DaysBeforeYear(y) ==
    (y - 1) * 365 + ((y - 1) \div 4) - ((y - 1) \div 100) + ((y - 1) \div 400)

RECURSIVE DaysBeforeMonth(_, _)
DaysBeforeMonth(y, m) ==
    IF m = 1 THEN 0 ELSE DaysBeforeMonth(y, m - 1) + DaysInMonth(y, m - 1)

\* date(y, m, d) raises ValueError unless this holds.
ValidDate(y, m, d) ==
    /\ y \in 1..9999
    /\ m \in 1..12
    /\ d \in 1..DaysInMonth(y, m)

ToOrdinal(d) == DaysBeforeYear(d.year) + DaysBeforeMonth(d.year, d.month) + d.day

\* date.weekday(): Monday is 0, Sunday is 6.
Weekday(d) == (ToOrdinal(d) + 6) % 7

DateLess(a, b) == ToOrdinal(a) < ToOrdinal(b)

\* (a - b).days
DaysBetween(a, b) == ToOrdinal(a) - ToOrdinal(b)

TomorrowOf(d) ==
    IF d.day < DaysInMonth(d.year, d.month) THEN [d EXCEPT !.day = d.day + 1]
    ELSE IF d.month < 12 THEN [year |-> d.year, month |-> d.month + 1, day |-> 1]
    ELSE [year |-> d.year + 1, month |-> 1, day |-> 1]

\* d + timedelta(days = n), n >= 0
RECURSIVE AddDays(_, _)
AddDays(d, n) == IF n = 0 THEN d ELSE AddDays(TomorrowOf(d), n - 1)

\* d.replace(year = y) raises ValueError unless the month/day exists in y.
CanReplaceYear(d, y) == ValidDate(y, d.month, d.day)

ReplaceYear(d, y) == [d EXCEPT !.year = y]

----------------------------------------------------------------------------
(* datetime.strptime(value, "%d.%m.%Y") and date.strftime                  *)

Number(cs) ==
    IF Len(cs) = 1 THEN DigitValue(cs[1])
    ELSE IF Len(cs) = 2 THEN 10 * DigitValue(cs[1]) + DigitValue(cs[2])
    ELSE 1000 * DigitValue(cs[1]) + 100 * DigitValue(cs[2])
         + 10 * DigitValue(cs[3]) + DigitValue(cs[4])

\* %d : 3[0-1] | [1-2]\d | 0[1-9] | [1-9]
DayField(cs) ==
    \/ Len(cs) = 1 /\ cs[1] \in AsciiDigits \ {"0"}
    \/ /\ Len(cs) = 2
       /\ \/ cs[1] = "3" /\ cs[2] \in {"0", "1"}
          \/ cs[1] \in {"1", "2"} /\ cs[2] \in AsciiDigits
          \/ cs[1] = "0" /\ cs[2] \in AsciiDigits \ {"0"}

\* %m : 1[0-2] | 0[1-9] | [1-9]
MonthField(cs) ==
    \/ Len(cs) = 1 /\ cs[1] \in AsciiDigits \ {"0"}
    \/ /\ Len(cs) = 2
       /\ \/ cs[1] = "1" /\ cs[2] \in {"0", "1", "2"}
          \/ cs[1] = "0" /\ cs[2] \in AsciiDigits \ {"0"}

\* %Y : \d\d\d\d
YearField(cs) == Len(cs) = 4 /\ \A i \in 1..4 : cs[i] \in AsciiDigits

Dots(cs) == {i \in 1..Len(cs) : cs[i] = "."}

\* The three fields of a string with exactly two dots, else <<>>.
Fields(cs) ==
    IF Cardinality(Dots(cs)) # 2 THEN <<>>
    ELSE LET p == CHOOSE i \in Dots(cs) : \A j \in Dots(cs) : i <= j
             q == CHOOSE i \in Dots(cs) : \A j \in Dots(cs) : j <= i
         IN  <<SubSeq(cs, 1, p - 1), SubSeq(cs, p + 1, q - 1),
               SubSeq(cs, q + 1, Len(cs))>>

\* The whole string must match day "." month "." year and name a real date;
\* otherwise strptime raises ValueError (ok = FALSE).
Strptime(s) ==
    LET f == Fields(Chars(s)) IN
    IF f = <<>> \/ ~DayField(f[1]) \/ ~MonthField(f[2]) \/ ~YearField(f[3])
    THEN [ok |-> FALSE, date |-> NoDate]
    ELSE LET d == Number(f[1])
             m == Number(f[2])
             y == Number(f[3])
         IN  IF ValidDate(y, m, d)
             THEN [ok |-> TRUE, date |-> [year |-> y, month |-> m, day |-> d]]
             ELSE [ok |-> FALSE, date |-> NoDate]

TwoDigits(n) == <<DigitChar(n \div 10), DigitChar(n % 10)>>

FourDigits(n) ==
    <<DigitChar(n \div 1000), DigitChar((n \div 100) % 10),
      DigitChar((n \div 10) % 10), DigitChar(n % 10)>>

\* The C library's strftime is undefined for a conversion specifier it does
\* not know, and "%" followed by U+043C is one.  The builds differ: glibc
\* copies the two characters to the output ("verbatim"); on builds where the
\* interpreter checks the directives first the call raises ValueError
\* ("error").
LibcKinds == {"verbatim", "error"}

\* d.strftime("%d.%м.%Y") where it returns.
Strftime(d) ==
    TwoDigits(d.day) \o <<".">> \o <<"%", "cyr_m">> \o <<".">> \o FourDigits(d.year)

----------------------------------------------------------------------------
(* Field validators                                                        *)

\* Phone.__init__ accepts value (a str: every argument parse_input hands on
\* is one) iff value.isdigit() and len(value) == 10.
PhoneOk(value) == IsDigit(Chars(value)) /\ Len(Chars(value)) = 10

\* Birthday.validate: "" when the value is accepted, else the ValueError.
BirthdayError(value, now) ==
    LET p == Strptime(value) IN
    IF ~p.ok THEN "BirthdayFormat"
    ELSE IF DateLess(now, p.date) THEN "BirthdayFuture"
    ELSE ""

\* Birthday.to_date
ToDate(value) == Strptime(value).date

----------------------------------------------------------------------------
(* Record.  A result is [exc, text, rec]: exc is "" on a normal return and *)
(* the exception class otherwise, text tells which raise it was.           *)

NoBirthday == "None"

NewRecord(name) == [name |-> name, phones |-> <<>>, birthday |-> NoBirthday]

Raised(exc, text, rec) == [exc |-> exc, text |-> text, rec |-> rec]

Returned(rec) == [exc |-> "", text |-> "", rec |-> rec]

RecordAddPhone(rec, phone) ==
    IF ~PhoneOk(phone) THEN Raised("ValueError", "PhoneFormat", rec)
    ELSE Returned([rec EXCEPT !.phones = Append(rec.phones, phone)])

\* The first position holding old, 0 when there is none.
FirstIndex(phones, old) ==
    IF \E i \in 1..Len(phones) : phones[i] = old
    THEN CHOOSE i \in 1..Len(phones) :
             /\ phones[i] = old
             /\ \A j \in 1..(i - 1) : phones[j] # old
    ELSE 0

RecordChangePhone(rec, old, new) ==
    LET i == FirstIndex(rec.phones, old) IN
    IF i = 0 THEN Raised("ValueError", "OldPhoneNotFound", rec)
    ELSE IF ~PhoneOk(new) THEN Raised("ValueError", "PhoneFormat", rec)
    ELSE Returned([rec EXCEPT !.phones[i] = new])

\* add_birthday without the test of line 87: a second birthday overwrites.
RecordAddBirthdayOverwrites(rec, value, now) ==
    IF BirthdayError(value, now) # ""
    THEN Raised("ValueError", BirthdayError(value, now), rec)
    ELSE Returned([rec EXCEPT !.birthday = value])

RecordAddBirthday(rec, value, now) ==
    IF rec.birthday # NoBirthday
    THEN Raised("ValueError", "BirthdayAlreadySet", rec)
    ELSE IF BirthdayError(value, now) # ""
    THEN Raised("ValueError", BirthdayError(value, now), rec)
    ELSE Returned([rec EXCEPT !.birthday = value])

\* Record.__str__, as the fields it joins.
RecordStr(rec) ==
    [name |-> rec.name,
     phones |-> IF rec.phones # <<>> THEN rec.phones ELSE <<"-">>,
     birthday |-> IF rec.birthday # NoBirthday THEN rec.birthday ELSE "Nemaye"]

----------------------------------------------------------------------------
(* AddressBook: the dict, as the sequence of its values in insertion order *)

\* AddressBook.find: the position of the record, 0 for None.
Find(b, name) ==
    IF \E i \in 1..Len(b) : b[i].name = name
    THEN CHOOSE i \in 1..Len(b) : b[i].name = name
    ELSE 0

\* AddressBook.add_record: data[name] = record keeps the position of a key
\* that is present and appends a new one.
AddRecord(b, rec) ==
    IF Find(b, rec.name) = 0 THEN Append(b, rec)
    ELSE [b EXCEPT ![Find(b, rec.name)] = rec]

\* Lines 108-110: the birthday's month/day in today's year, moved to the next
\* year when that is before today.  replace() raises ValueError when the
\* month/day does not exist in the year asked for.
Candidate(value, now) ==
    LET b == ToDate(value) IN
    IF ~CanReplaceYear(b, now.year) THEN [ok |-> FALSE, date |-> NoDate]
    ELSE LET c == ReplaceYear(b, now.year) IN
         IF ~DateLess(c, now) THEN [ok |-> TRUE, date |-> c]
         ELSE IF ~CanReplaceYear(c, now.year + 1) THEN [ok |-> FALSE, date |-> NoDate]
         ELSE [ok |-> TRUE, date |-> ReplaceYear(c, now.year + 1)]

\* Line 112
InWindow(delta) == 0 <= delta /\ delta <= 7

\* The shift with one day added for a Saturday too.
ShiftedOneDay(c) == IF Weekday(c) \in {5, 6} THEN AddDays(c, 1) ELSE c

\* Lines 114-117: a Saturday moves to Monday, a Sunday moves to Monday.
Shifted(c) ==
    IF Weekday(c) = 5 THEN AddDays(c, 2)
    ELSE IF Weekday(c) = 6 THEN AddDays(c, 1)
    ELSE c

\* One turn of the loop of get_upcoming_birthdays: "skip", "raise" or the
\* entry appended.
Visit(rec, now, lc) ==
    IF rec.birthday = NoBirthday THEN [kind |-> "skip", text |-> "", entry |-> <<>>]
    ELSE LET c == Candidate(rec.birthday, now) IN
         IF ~c.ok THEN [kind |-> "raise", text |-> "DayOutOfRange", entry |-> <<>>]
         ELSE IF ~InWindow(DaysBetween(c.date, now))
         THEN [kind |-> "skip", text |-> "", entry |-> <<>>]
         ELSE IF lc = "error"
         THEN [kind |-> "raise", text |-> "InvalidFormatString", entry |-> <<>>]
         ELSE [kind |-> "entry", text |-> "",
               entry |-> <<[name |-> rec.name,
                            birthday |-> Strftime(Shifted(c.date))]>>]

\* AddressBook.get_upcoming_birthdays from record i on, upcoming = acc so far.
RECURSIVE UpcomingFrom(_, _, _, _, _)
UpcomingFrom(b, i, now, lc, acc) ==
    IF i > Len(b) THEN [exc |-> "", text |-> "", upcoming |-> acc]
    ELSE LET v == Visit(b[i], now, lc) IN
         IF v.kind = "raise"
         THEN [exc |-> "ValueError", text |-> v.text, upcoming |-> <<>>]
         ELSE UpcomingFrom(b, i + 1, now, lc, acc \o v.entry)

GetUpcomingBirthdays(b, now, lc) == UpcomingFrom(b, 1, now, lc, <<>>)

----------------------------------------------------------------------------
(* parse_input.  A line is the sequence of its words, lower-cased, as      *)
(* strip().lower() and split() leave them; the words of a line are taken   *)
(* to be one space apart, as the multi-word variants need.  The Ukrainian  *)
(* variants are written in Latin letters.                                  *)

COMMAND_ALIASES ==
    [ hello           |-> {<<"hello">>, <<"pryvit">>},
      add             |-> {<<"add">>, <<"dodaty">>},
      change          |-> {<<"change">>, <<"zminyty">>},
      phone           |-> {<<"phone">>, <<"telefon">>},
      all             |-> {<<"all">>, <<"show", "all">>, <<"vsi">>},
      add_birthday    |-> {<<"add-birthday">>, <<"dodaty-dn">>},
      show_birthday   |-> {<<"show-birthday">>, <<"pokazaty-dn">>},
      birthdays       |-> {<<"birthdays">>, <<"dni-narodzhennya">>},
      close           |-> {<<"close">>, <<"exit">>, <<"good", "bye">>, <<"goodbye">>,
                           <<"bye">>, <<"zakryty">>, <<"vyity">>},
      save            |-> {<<"save">>, <<"zberehty">>} ]

Canonical ==
    [ hello |-> "hello", add |-> "add", change |-> "change", phone |-> "phone",
      all |-> "all", add_birthday |-> "add-birthday",
      show_birthday |-> "show-birthday", birthdays |-> "birthdays",
      close |-> "close", save |-> "save" ]

\* text == v or text.startswith(v + " ")
StartsWith(line, v) == Len(line) >= Len(v) /\ SubSeq(line, 1, Len(v)) = v

\* No line starts with variants of two canonical commands, and of two
\* variants of one command that a line starts with, the longer is tried first.
ParseInput(line) ==
    LET hits == {k \in DOMAIN COMMAND_ALIASES :
                     \E v \in COMMAND_ALIASES[k] : StartsWith(line, v)}
    IN  IF hits # {}
        THEN LET k == CHOOSE h \in hits : TRUE
                 v == CHOOSE w \in COMMAND_ALIASES[k] :
                          /\ StartsWith(line, w)
                          /\ \A u \in COMMAND_ALIASES[k] :
                                 StartsWith(line, u) => Len(u) <= Len(w)
             IN  [command |-> Canonical[k],
                  args |-> SubSeq(line, Len(v) + 1, Len(line))]
        ELSE IF line = <<>> THEN [command |-> "", args |-> <<>>]
        ELSE [command |-> line[1], args |-> Tail(line)]

----------------------------------------------------------------------------
(* Command handlers, each with the input_error wrapper around it.  A       *)
(* handler gives [book, out]: the store when it ends and what is printed.  *)
(* out is [exc, text, items]: exc is the exception class input_error       *)
(* caught ("" when none), text tells the message, items are the values the *)
(* message lists.                                                          *)

Say(text) == [exc |-> "", text |-> text, items |-> <<>>]

Listing(text, items) == [exc |-> "", text |-> text, items |-> items]

\* input_error: "Pomylka: ..." for the five classes it catches.
Caught(exc, text) ==
    [exc |-> exc,
     text |-> CASE exc = "AttributeError" -> "ContactNotFound"
                [] exc = "IndexError" -> "NotEnoughArguments"
                [] exc = "KeyError" -> "KeyNotFound"
                [] OTHER -> text,
     items |-> <<>>]

add_contact(args, b) ==
    IF Len(args) < 2 THEN [book |-> b, out |-> Caught("ValueError", "Unpack")]
    ELSE LET name == args[1]
             phone == args[2]
             found == Find(b, name) # 0
             b1 == IF found THEN b ELSE AddRecord(b, NewRecord(name))
             i == Find(b1, name)
             r == RecordAddPhone(b1[i], phone)
         IN  IF r.exc # "" THEN [book |-> b1, out |-> Caught(r.exc, r.text)]
             ELSE [book |-> [b1 EXCEPT ![i] = r.rec],
                   out |-> Say(IF found THEN "ContactUpdated" ELSE "ContactAdded")]

change_contact(args, b) ==
    IF Len(args) # 3 THEN [book |-> b, out |-> Caught("ValueError", "Unpack")]
    ELSE LET i == Find(b, args[1]) IN
         IF i = 0 THEN [book |-> b, out |-> Caught("AttributeError", "")]
         ELSE LET r == RecordChangePhone(b[i], args[2], args[3]) IN
              IF r.exc # "" THEN [book |-> b, out |-> Caught(r.exc, r.text)]
              ELSE [book |-> [b EXCEPT ![i] = r.rec], out |-> Say("PhoneChanged")]

get_phones(args, b) ==
    IF Len(args) = 0 THEN [book |-> b, out |-> Caught("IndexError", "")]
    ELSE LET i == Find(b, args[1]) IN
         IF i = 0 \/ b[i].phones = <<>> THEN [book |-> b, out |-> Say("NoPhones")]
         ELSE [book |-> b, out |-> Listing("Phones", b[i].phones)]

show_all(b) ==
    IF b = <<>> THEN [book |-> b, out |-> Say("BookEmpty")]
    ELSE [book |-> b, out |-> Listing("Records", [i \in 1..Len(b) |-> RecordStr(b[i])])]

add_birthday(args, b, now) ==
    IF Len(args) # 2 THEN [book |-> b, out |-> Caught("ValueError", "Unpack")]
    ELSE LET i == Find(b, args[1]) IN
         IF i = 0 THEN [book |-> b, out |-> Caught("AttributeError", "")]
         ELSE LET r == RecordAddBirthday(b[i], args[2], now) IN
              IF r.exc # "" THEN [book |-> b, out |-> Caught(r.exc, r.text)]
              ELSE [book |-> [b EXCEPT ![i] = r.rec], out |-> Say("BirthdayAdded")]

show_birthday(args, b) ==
    IF Len(args) = 0 THEN [book |-> b, out |-> Caught("IndexError", "")]
    ELSE LET i == Find(b, args[1]) IN
         IF i # 0 /\ b[i].birthday # NoBirthday
         THEN [book |-> b, out |-> Listing("Birthday", <<b[i].birthday>>)]
         ELSE [book |-> b, out |-> Caught("ValueError", "BirthdayNotFound")]

birthdays(args, b, now, lc) ==
    LET u == GetUpcomingBirthdays(b, now, lc) IN
    IF u.exc # "" THEN [book |-> b, out |-> Caught(u.exc, u.text)]
    ELSE IF u.upcoming = <<>> THEN [book |-> b, out |-> Say("NoBirthdaysThisWeek")]
    ELSE [book |-> b, out |-> Listing("Upcoming", u.upcoming)]

----------------------------------------------------------------------------
(* load_data and save_data                                                 *)

\* What addressbook.pkl can hold when load_data opens it.
\*   "missing"    no such file: open raises FileNotFoundError
\*   "empty"      zero bytes: pickle.load raises EOFError
\*   "corrupt"    bytes that are no pickle: pickle.load raises UnpicklingError
\*   "unreadable" no permission to read: open raises PermissionError
\*   "other"      the pickle of an object that is no AddressBook
\*   "store"      the pickle of an AddressBook
Stored(b) == [kind |-> "store", content |-> b]

NotAStore(kind) == [kind |-> kind, content |-> <<>>]

\* load_data: the exception that leaves it, "" when it returns.
LoadRaises(f) ==
    CASE f.kind = "corrupt" -> "UnpicklingError"
      [] f.kind = "unreadable" -> "PermissionError"
      [] OTHER -> ""

\* load_data: the AddressBook returned.
LoadData(f) == IF f.kind = "store" THEN f.content ELSE <<>>

\* save_data: open(filename, "wb") raises OSError when the file cannot be
\* written, and nothing is written then.
SaveRaises(dk) == IF dk = "readonly" THEN "OSError" ELSE ""

SaveData(b, f, dk) == IF dk = "readonly" THEN f ELSE Stored(b)

----------------------------------------------------------------------------
(* Inputs                                                                  *)

P1 == "0123456789"

P2 == "5550001111"

\* Rejected for its length, accepted by isdigit() and len() although its last
\* character is U+00B2, rejected for its length, rejected for its letters.
PhoneInputs == {P1, P2, "012345678", "012345678^2", "01234567890", "01234abcde"}

\* The lines of Spec, the whole program: every command, every way to end.
CloseLines ==
    {<<"close">>, <<"exit">>, <<"good", "bye">>, <<"goodbye">>, <<"bye">>,
     <<"zakryty">>, <<"vyity">>, <<"exit", "now">>}

Lines ==
    CloseLines
    \cup {<<"add", "ann", P1>>, <<"add", "ann", "012345678">>, <<"add", "ann">>,
          <<"change", "ann", P1, P1>>, <<"change", "ann", P1, P1, "x">>,
          <<"change", "bob", P1, P1>>, <<"phone", "ann">>, <<"phone">>,
          <<"add-birthday", "ann", "29.02.2000">>,
          <<"add-birthday", "ann", "15.06.1990">>,
          <<"add-birthday", "bob", "15.06.1990">>,
          <<"show-birthday", "ann">>, <<"show-birthday">>,
          <<"birthdays">>, <<"all">>, <<"show", "all">>, <<"save">>,
          <<"hello">>, <<"pryvit">>, <<>>, <<"foo", "bar">>}

\* What addressbook.pkl may hold when the program starts.
InitialFiles ==
    {NotAStore(k) : k \in {"missing", "empty", "corrupt", "unreadable", "other"}}
    \cup {Stored(<<>>)}

Todays == {[year |-> 2024, month |-> 6, day |-> 10]}

\* The lines of SpecRecord, the commands on records: every phone and
\* birthday input for "ann", with "bob" as a second record beside it.
RecordLines ==
    {<<"add", "ann", p>> : p \in PhoneInputs}
    \cup {<<"add", "bob", P1>>, <<"add", "bob", "012345678">>, <<"add", "ann">>}
    \cup {<<"change", "ann", o, p>> : o \in {P1, P2}, p \in PhoneInputs}
    \cup {<<"change", "bob", P1, P2>>, <<"change", "ann">>,
          <<"change", "ann", P1, P2, "x">>}
    \cup {<<"add-birthday", "ann", b>> :
              b \in {"15.06.1990", "5.6.1990", "31.02.2000", "15-06-1990",
                     "15.06.90", "01.01.2999"}}
    \cup {<<"add-birthday", "bob", "15.06.1990">>, <<"add-birthday", "ann">>}
    \cup {<<"show-birthday", "ann">>, <<"show-birthday", "bob">>,
          <<"phone", "ann">>, <<"all">>}

\* The lines of SpecBirthdays, the upcoming-birthday query: birthdays on and
\* around the edges of the window for each of the days in BirthdayTodays.
BirthdayInputs ==
    {"15.06.1990", "16.06.2000", "17.06.1985", "18.06.1985", "09.06.1990",
     "10.06.1990", "02.01.1990", "30.12.1990", "29.02.2000", "01.01.2999"}

BirthdayLines ==
    {<<"add-birthday", "ann", b>> : b \in BirthdayInputs}
    \cup {<<"add-birthday", "bob", b>> : b \in {"17.06.1985", "29.02.2000", "30.12.1990"}}
    \cup {<<"birthdays">>, <<"dni-narodzhennya">>}

\* Sunday 9 June 2024, Monday 10 June 2024, Thursday 28 December 2023 and
\* Monday 26 February 2024.
BirthdayTodays ==
    {[year |-> 2024, month |-> 6, day |-> 9],
     [year |-> 2024, month |-> 6, day |-> 10],
     [year |-> 2023, month |-> 12, day |-> 28],
     [year |-> 2024, month |-> 2, day |-> 26]}

\* The store two "add" commands of an earlier session left in the file.
TwoContacts ==
    <<[name |-> "ann", phones |-> <<P1>>, birthday |-> NoBirthday],
      [name |-> "bob", phones |-> <<P1>>, birthday |-> NoBirthday]>>

----------------------------------------------------------------------------
(* main                                                                    *)

Nothing == Say("")

NoLine == [command |-> "", args |-> <<>>]

Init ==
    /\ pc = "start"
    /\ book = <<>>
    /\ file \in InitialFiles
    /\ disk \in {"ok", "readonly"}
    /\ libc \in LibcKinds
    /\ today \in Todays
    /\ days = 0
    /\ last = NoLine
    /\ out = Nothing
    /\ endedBy = "none"
    /\ exitSaves = 0

\* Line 223: book = load_data(), outside the try statement.
Load ==
    /\ pc = "start"
    /\ IF LoadRaises(file) # ""
       THEN /\ pc' = "crashed"
            /\ out' = [exc |-> LoadRaises(file), text |-> "Traceback", items |-> <<>>]
            /\ book' = book
       ELSE /\ pc' = "loop"
            /\ out' = Say("Welcome")
            /\ book' = LoadData(file)
    /\ UNCHANGED <<file, disk, libc, today, days, last, endedBy, exitSaves>>

\* Line 228 for every line of a set: what parse_input makes of each.
Parsed(lines) == {ParseInput(line) : line \in lines}

\* A handler that returns to the loop; p is the (command, args) read.
Handled(p, r) ==
    /\ book' = r.book
    /\ out' = r.out
    /\ last' = p
    /\ UNCHANGED <<pc, file, disk, libc, today, days, endedBy, exitSaves>>

Reads(p, command) == pc = "loop" /\ p.command = command

DoHello(p) ==
    /\ Reads(p, "hello")
    /\ Handled(p, [book |-> book, out |-> Say("HowCanIHelp")])

DoAdd(p) ==
    /\ Reads(p, "add")
    /\ Len(p.args) >= 2 /\ Find(book, p.args[1]) # 0
           => Len(book[Find(book, p.args[1])].phones) < MaxPhones
    /\ Handled(p, add_contact(p.args, book))

DoChange(p) ==
    /\ Reads(p, "change")
    /\ Handled(p, change_contact(p.args, book))

DoPhone(p) ==
    /\ Reads(p, "phone")
    /\ Handled(p, get_phones(p.args, book))

DoAll(p) ==
    /\ Reads(p, "all")
    /\ Handled(p, show_all(book))

DoAddBirthday(p) ==
    /\ Reads(p, "add-birthday")
    /\ Handled(p, add_birthday(p.args, book, today))

DoShowBirthday(p) ==
    /\ Reads(p, "show-birthday")
    /\ Handled(p, show_birthday(p.args, book))

DoBirthdays(p) ==
    /\ Reads(p, "birthdays")
    /\ Handled(p, birthdays(p.args, book, today, libc))

DoUnknown(p) ==
    /\ pc = "loop"
    /\ p.command \notin {Canonical[k] : k \in DOMAIN Canonical}
    /\ Handled(p, [book |-> book, out |-> Say("UnknownCommand")])

\* save_command: input_error does not catch OSError, so a failed save leaves
\* the loop through the finally clause.
DoSave(p) ==
    /\ Reads(p, "save")
    /\ last' = p
    /\ file' = SaveData(book, file, disk)
    /\ IF SaveRaises(disk) # ""
       THEN /\ pc' = "finally"
            /\ endedBy' = "error"
            /\ out' = [exc |-> SaveRaises(disk), text |-> "Uncaught", items |-> <<>>]
       ELSE /\ pc' = "loop"
            /\ endedBy' = endedBy
            /\ out' = Say("BookSaved")
    /\ UNCHANGED <<book, disk, libc, today, days, exitSaves>>

DoClose(p) ==
    /\ Reads(p, "close")
    /\ pc' = "finally"
    /\ endedBy' = "close"
    /\ last' = p
    /\ out' = Say("Goodbye")
    /\ UNCHANGED <<book, file, disk, libc, today, days, exitSaves>>

\* An interruption that ends the process with no finally clause to save.
InterruptWithoutSave ==
    /\ pc = "loop"
    /\ pc' = "exited"
    /\ endedBy' = "interrupt"
    /\ out' = Say("ShuttingDown")
    /\ UNCHANGED <<book, file, disk, libc, today, days, last, exitSaves>>

\* KeyboardInterrupt while input() waits: lines 253-254.
Interrupt ==
    /\ pc = "loop"
    /\ pc' = "finally"
    /\ endedBy' = "interrupt"
    /\ out' = Say("ShuttingDown")
    /\ UNCHANGED <<book, file, disk, libc, today, days, last, exitSaves>>

\* KeyboardInterrupt inside add_contact, between add_record (line 168) and
\* add_phone (line 170).
InterruptInAdd(p) ==
    /\ Reads(p, "add")
    /\ Len(p.args) >= 2
    /\ Find(book, p.args[1]) = 0
    /\ book' = AddRecord(book, NewRecord(p.args[1]))
    /\ last' = p
    /\ pc' = "finally"
    /\ endedBy' = "interrupt"
    /\ out' = Say("ShuttingDown")
    /\ UNCHANGED <<file, disk, libc, today, days, exitSaves>>

\* input() raises EOFError at the end of standard input; main catches only
\* KeyboardInterrupt.
EndOfInput ==
    /\ pc = "loop"
    /\ pc' = "finally"
    /\ endedBy' = "eof"
    /\ out' = [exc |-> "EOFError", text |-> "Uncaught", items |-> <<>>]
    /\ UNCHANGED <<book, file, disk, libc, today, days, last, exitSaves>>

\* Lines 255-256: finally: save_data(book).
FinallySave ==
    /\ pc = "finally"
    /\ pc' = "exited"
    /\ exitSaves' = exitSaves + 1
    /\ file' = SaveData(book, file, disk)
    /\ UNCHANGED <<book, disk, libc, today, days, last, out, endedBy>>

\* Midnight passes while input() waits.
NextDay ==
    /\ pc = "loop"
    /\ days < MaxDays
    /\ days' = days + 1
    /\ today' = TomorrowOf(today)
    /\ UNCHANGED <<pc, book, file, disk, libc, last, out, endedBy, exitSaves>>

Inputs == Parsed(Lines)

Command(p) ==
    \/ DoHello(p)
    \/ DoAdd(p)
    \/ DoChange(p)
    \/ DoPhone(p)
    \/ DoAll(p)
    \/ DoAddBirthday(p)
    \/ DoShowBirthday(p)
    \/ DoBirthdays(p)
    \/ DoSave(p)
    \/ DoUnknown(p)
    \/ DoClose(p)
    \/ InterruptInAdd(p)

Next ==
    \/ Load
    \/ \E p \in Inputs : Command(p)
    \/ Interrupt
    \/ EndOfInput
    \/ FinallySave
    \/ NextDay

\* The whole program.
Spec == Init /\ [][Next]_vars

\* The commands on records, in a first session (no file yet).  None of them
\* calls strftime or writes the file.
InitRecord ==
    /\ pc = "start"
    /\ book = <<>>
    /\ file = NotAStore("missing")
    /\ disk = "ok"
    /\ libc = "verbatim"
    /\ today \in Todays
    /\ days = 0
    /\ last = NoLine
    /\ out = Nothing
    /\ endedBy = "none"
    /\ exitSaves = 0

RecordInputs == Parsed(RecordLines)

NextRecord ==
    \/ Load
    \/ \E p \in RecordInputs :
           \/ DoAdd(p)
           \/ DoChange(p)
           \/ DoPhone(p)
           \/ DoAll(p)
           \/ DoAddBirthday(p)
           \/ DoShowBirthday(p)

SpecRecord == InitRecord /\ [][NextRecord]_vars

\* The upcoming-birthday query, in a session that finds two contacts saved.
InitBirthdays ==
    /\ pc = "start"
    /\ book = <<>>
    /\ file = Stored(TwoContacts)
    /\ disk = "ok"
    /\ libc \in LibcKinds
    /\ today \in BirthdayTodays
    /\ days = 0
    /\ last = NoLine
    /\ out = Nothing
    /\ endedBy = "none"
    /\ exitSaves = 0

BirthdaysInputs == Parsed(BirthdayLines)

NextBirthdays ==
    \/ Load
    \/ \E p \in BirthdaysInputs : DoAddBirthday(p) \/ DoBirthdays(p)
    \/ NextDay

SpecBirthdays == InitBirthdays /\ [][NextBirthdays]_vars

----------------------------------------------------------------------------
(* Properties                                                              *)

\* A step in which the loop reads a line, runs its handler and comes back
\* for the next line; last' and out' are then that line and what it printed.
CommandStep == pc = "loop" /\ pc' = "loop" /\ days' = days

\* The position of the record called name in b; 0 when there is none.
At(b, name) == Find(b, name)

\* A string of exactly ten characters, each one of 0-9.
TenDecimalDigits(s) ==
    /\ Len(Chars(s)) = 10
    /\ \A i \in 1..10 : Chars(s)[i] \in AsciiDigits

ValidationErrors ==
    {"PhoneFormat", "BirthdayFormat", "BirthdayFuture", "BirthdayAlreadySet",
     "OldPhoneNotFound"}

\* C1: a command (add, change, add-birthday, show-birthday) that ends in a
\* validation error leaves the store as it was before the command.
C1_ValidationErrorKeepsStore ==
    [][ ( /\ CommandStep
          /\ last'.command \in {"add", "change", "add-birthday", "show-birthday"}
          /\ out'.exc = "ValueError"
          /\ out'.text \in ValidationErrors )
        => book' = book ]_vars

\* C2: when the loop has ended by "close" (or an alias) or by an interruption
\* and the process has exited, save_data has been called exactly once by
\* main's exit path, with the store as it is in memory; the file holds that
\* store whenever it could be written.
C2_SavedOnceOnExit ==
    (pc = "exited" /\ endedBy \in {"close", "interrupt"})
        => /\ exitSaves = 1
           /\ disk = "ok" => file = Stored(book)

\* C2 happens: an interrupted session with a contact in the store has exited
\* and the file holds the store.
C2_Witness ==
    /\ pc = "exited"
    /\ endedBy = "interrupt"
    /\ book # <<>>
    /\ exitSaves = 1
    /\ file = Stored(book)

\* C3: load never fails, whatever the save file holds.
C3_LoadNeverFails == pc # "crashed"

\* C4: every error raised while a command executes is caught where the
\* command is dispatched and printed, and the loop goes on: no handler lets
\* an exception through to end the session.
C4_CommandErrorsAreCaught == endedBy # "error"

\* C5: add_birthday on a record whose birthday is set fails, for a valid and
\* for an invalid argument alike, and a birthday that is set keeps its value
\* in every later state.
C5_BirthdaySetOnce ==
    [][ /\ \A i \in 1..Len(book) :
               book[i].birthday # NoBirthday
                   => /\ i <= Len(book')
                      /\ book'[i].name = book[i].name
                      /\ book'[i].birthday = book[i].birthday
        /\ ( /\ CommandStep
             /\ last'.command = "add-birthday"
             /\ Len(last'.args) = 2
             /\ At(book, last'.args[1]) # 0
             /\ book[At(book, last'.args[1])].birthday # NoBirthday )
           => /\ out'.exc = "ValueError"
              /\ out'.text = "BirthdayAlreadySet"
              /\ book' = book ]_vars

\* C5 happens: a second add-birthday with a valid date has been refused, and
\* the record still has the first date.
C5_Witness ==
    /\ last = [command |-> "add-birthday", args |-> <<"ann", "5.6.1990">>]
    /\ out.text = "BirthdayAlreadySet"
    /\ At(book, "ann") # 0
    /\ book[At(book, "ann")].birthday = "15.06.1990"

\* C6: every phone of every record in the store is a string of exactly ten
\* decimal digits 0-9.
C6_PhonesAreTenDigits ==
    \A i \in 1..Len(book) :
        \A j \in 1..Len(book[i].phones) : TenDecimalDigits(book[i].phones[j])

\* The candidate date as C7 words it: the birthday's month and day in
\* today's year, or in the next year if that date is strictly before today.
ClaimCandidate(value, now) ==
    LET b == ToDate(value)
        c == [year |-> now.year, month |-> b.month, day |-> b.day]
    IN  IF DateLess(c, now) THEN [c EXCEPT !.year = now.year + 1] ELSE c

Emitted(items, name) == \E k \in 1..Len(items) : items[k].name = name

\* C7: the "birthdays" query includes a record exactly when it has a birthday
\* and the candidate date is 0 to 7 days after today.
C7_IncludedExactlyInWindow ==
    [][ (CommandStep /\ last'.command = "birthdays")
        => \A i \in 1..Len(book) :
               Emitted(out'.items, book[i].name)
               <=> /\ book[i].birthday # NoBirthday
                   /\ DaysBetween(ClaimCandidate(book[i].birthday, today), today)
                          \in 0..7 ]_vars

\* The date C8 says is emitted for candidate c.
ClaimShift(c) ==
    IF Weekday(c) = 5 THEN AddDays(c, 2)
    ELSE IF Weekday(c) = 6 THEN AddDays(c, 1)
    ELSE c

\* C8: for every record the query emits, the emitted date (its day and year
\* are the first two and the last four characters printed) is the candidate
\* plus 2 days for a Saturday, plus 1 day for a Sunday, the candidate itself
\* otherwise; it is no Saturday or Sunday and is 0 to 8 days after today, 8
\* only for a Sunday 7 days out or a Saturday 6 days out.
C8_WeekendMovesToMonday ==
    [][ (CommandStep /\ last'.command = "birthdays")
        => \A k \in 1..Len(out'.items) :
               LET rec == book[At(book, out'.items[k].name)]
                   c == ClaimCandidate(rec.birthday, today)
                   e == ClaimShift(c)
                   str == out'.items[k].birthday
               IN  /\ SubSeq(str, 1, 2) = TwoDigits(e.day)
                   /\ SubSeq(str, Len(str) - 3, Len(str)) = FourDigits(e.year)
                   /\ Weekday(e) \notin {5, 6}
                   /\ DaysBetween(e, today) \in 0..8
                   /\ DaysBetween(e, today) = 8
                          => \/ Weekday(c) = 6 /\ DaysBetween(c, today) = 7
                             \/ Weekday(c) = 5 /\ DaysBetween(c, today) = 6 ]_vars

\* C8 happens: on Sunday 9 June 2024 a birthday on 16 June, seven days out
\* and a Sunday, is emitted as Monday 17 June, eight days out.
C8_Witness ==
    /\ today = [year |-> 2024, month |-> 6, day |-> 9]
    /\ last.command = "birthdays"
    /\ book[At(book, "ann")].birthday = "16.06.2000"
    /\ out.text = "Upcoming"
    /\ \E k \in 1..Len(out.items) :
           /\ out.items[k].name = "ann"
           /\ SubSeq(out.items[k].birthday, 1, 2) = <<"1", "7">>

\* Two digits, a dot, two digits, a dot, four digits.
IsDDMMYYYY(str) ==
    /\ Len(str) = 10
    /\ \A i \in {1, 2, 4, 5, 7, 8, 9, 10} : str[i] \in AsciiDigits
    /\ str[3] = "." /\ str[6] = "."

\* C9: every entry the "birthdays" command prints carries the date as
\* DD.MM.YYYY.
C9_PrintedAsDDMMYYYY ==
    (last.command = "birthdays" /\ out.text = "Upcoming")
        => \A k \in 1..Len(out.items) : IsDDMMYYYY(out.items[k].birthday)

\* The first position of phones that holds old; 0 when none does.
FirstPosition(phones, old) ==
    IF \E k \in 1..Len(phones) : phones[k] = old
    THEN CHOOSE k \in 1..Len(phones) :
             phones[k] = old /\ \A j \in 1..Len(phones) : phones[j] = old => k <= j
    ELSE 0

\* What C10 says of a "change name old new" step on a record that exists,
\* given which strings count as valid phones.
ChangeFrame(valid(_)) ==
    LET i == At(book, last'.args[1])
        old == last'.args[2]
        new == last'.args[3]
        k == FirstPosition(book[i].phones, old)
    IN  IF k # 0 /\ valid(new)
        THEN /\ out'.exc = ""
             /\ Len(book') = Len(book)
             /\ \A r \in 1..Len(book) : r # i => book'[r] = book[r]
             /\ book'[i].name = book[i].name
             /\ book'[i].birthday = book[i].birthday
             /\ Len(book'[i].phones) = Len(book[i].phones)
             /\ book'[i].phones[k] = new
             /\ \A j \in 1..Len(book[i].phones) :
                    j # k => book'[i].phones[j] = book[i].phones[j]
        ELSE /\ out'.exc # ""
             /\ book' = book

ChangeStep ==
    /\ CommandStep
    /\ last'.command = "change"
    /\ Len(last'.args) = 3
    /\ At(book, last'.args[1]) # 0

\* C10: change_phone(old, new) replaces the first phone equal to old by new
\* and nothing else; when old is absent, or new is not a valid phone (ten
\* decimal digits), it fails and the phones are unchanged.
C10_ChangePhoneFrame == [][ChangeStep => ChangeFrame(TenDecimalDigits)]_vars

\* The same with "valid" read as "accepted by Phone.__init__".
ChangePhoneFrameAsValidated == [][ChangeStep => ChangeFrame(PhoneOk)]_vars

====
